---- MODULE Spec2Model ----
(***************************************************************************)
(* Job orchestration of the Sharp API.                                     *)
(*                                                                         *)
(* Two deployments of the same API are modelled; which one runs is fixed   *)
(* in the initial state and never changes:                                 *)
(*   "modal"  : src/modal_app.py - web function + SharpInference workers,  *)
(*              job state in the shared modal.Dict `job_dict`, files on    *)
(*              the shared volume `outputs_volume` (reload / commit).      *)
(*   "server" : src/server/routes/inference.py - one process, job state in *)
(*              the in-memory dict `jobs`, work done by background tasks.  *)
(*                                                                         *)
(* A Python dict is modelled as a TLA+ function whose DOMAIN is the set of *)
(* keys that are present; an unset Optional field of a pydantic model is   *)
(* an absent key.                                                          *)
(***************************************************************************)
EXTENDS Integers, Sequences, FiniteSets, TLC

\* ---- bounds of the model ------------------------------------------------
MaxJobs == 4
MaxUploads == 1
\* Seconds of a download request the clock follows.
MaxClock == 11
\* Calls of run_inference that are in the statistics block together.
MaxRecorders == 2

\* ---- program constants --------------------------------------------------
maxConcurrent == 3
AverageJobSeconds == 45
StatsCap == 10000
HourSeconds == 3600
DaySeconds == 86400
MonthSeconds == 2592000
YearSeconds == 31536000
BreakdownHours == 24
max_retries == 5
RetryWaitSeconds == 2

JobIds == 1..MaxJobs
UploadIds == 1..MaxUploads
\* Clock readings (time.time()); no operation modelled here compares them.
ElapsedValues == {1}
Times == {1}
\* The clock of the statistics: Now, and the readings around it.
Now == 40000000
CompletionTimes == {Now - HourSeconds, Now - HourSeconds + 1, Now}
ReportTimes == {Now - 1, Now, Now + 1}

VARIABLES
    deployment,   \* "modal" or "server"
    upload_files, \* modal: ids of the uploads stored on the volume
    job_dict,     \* modal: job id -> job record (modal.Dict "sharp-jobs")
    stats_dict,   \* modal: [completions, total_count] (modal.Dict "sharp-stats")
    wpc,          \* modal: per job, position of its run_inference call
    splat_files,  \* modal: job id -> "none" | "local" | "committed"
    container,    \* modal: job id -> the container that serves its call
    uploads,      \* server: set of upload ids in the `uploads` dict
    jobs,         \* server: job id -> SplatJob
    tasks,        \* server: job id -> "none" | "pending" | "done"
    dl,           \* modal: the download_file request and its position
    recorders,    \* modal: per call, its position in the statistics block
    report,       \* modal: the get_usage_stats request and its position
    ply_files,    \* modal: job id -> content of its splat.ply in the worker
    color_log,    \* modal: job id -> the line each call of
                  \*        add_blender_vertex_colors on its file printed
    mesh_files,   \* file name -> the mesh written under that name
    upload_dir,   \* image id -> the file written to the uploads directory
    resp          \* what the step just taken answered, and to which request

vars == <<deployment, upload_files, job_dict, stats_dict, wpc, splat_files,
          container,
          uploads, jobs, tasks, dl, recorders, report, ply_files, color_log,
          mesh_files, upload_dir, resp>>

modalVars == <<upload_files, job_dict, stats_dict, wpc, splat_files, container>>
serverVars == <<uploads, jobs, tasks>>
\* The output file and the colour step, followed in ColorSpec and
\* ArtifactSpec.
artifactVars == <<ply_files, color_log, mesh_files, upload_dir>>
\* Download request, statistics block, usage report and output file,
\* followed step by step in the specifications of their own.
steppedVars == <<dl, recorders, report, artifactVars>>

\* ---- helpers ------------------------------------------------------------
Put(d, k, v) == [x \in (DOMAIN d) \cup {k} |-> IF x = k THEN v ELSE d[x]]

Has(rec, field) == field \in DOMAIN rec

\* The store the deployment keeps its job records in.
Records == IF deployment = "modal" THEN job_dict ELSE jobs

StatusOf(d, j) == IF j \in DOMAIN d THEN d[j].status ELSE "absent"

\* The jobs a store holds with the given status.
StatusIn(d, st) == {j \in DOMAIN d : d[j].status = st}

\* Mutant: ids are not fresh (an id in use can be handed out again).
FreshReused(ids, used) == ids

\* Job ids (uuid4) are fresh: the model hands them out in order.
Fresh(ids, used) == {j \in ids \ used : \A k \in ids : k < j => k \in used}

NoResponse == [code |-> 0]

\* No download request has arrived.
IdleDownload ==
    [pc |-> "idle", job_id |-> << >>, filename |-> << >>, attempt |-> 0,
     reloads |-> 0, sleeps |-> 0, clock |-> 0, code |-> 0]

Recorders == 1..MaxRecorders

\* Positions of a call that no container has taken up.
NotStarted == {"none", "spawned"}

\* A call that has not reached the statistics block.
IdleRecorder ==
    [pc |-> "idle", current_time |-> 0, completions |-> << >>, total_count |-> 0]

\* No usage report is being computed.
IdleReport == [pc |-> "idle", completions |-> << >>]

\* No file at the path.
NoFile == [exists |-> FALSE, valid |-> FALSE, comments |-> << >>, elements |-> << >>]

\* ---- Init ---------------------------------------------------------------
Init ==
    /\ deployment \in {"modal", "server"}
    /\ upload_files = {}
    /\ job_dict = << >>
    /\ stats_dict = [completions |-> << >>, total_count |-> 0]
    /\ wpc = [j \in JobIds |-> "none"]
    /\ splat_files = [j \in JobIds |-> "none"]
    /\ uploads = {}
    /\ jobs = << >>
    /\ tasks = [j \in JobIds |-> "none"]
    /\ dl = IdleDownload
    /\ recorders = [r \in Recorders |-> IdleRecorder]
    /\ report = IdleReport
    /\ ply_files = [j \in JobIds |-> NoFile]
    /\ color_log = [j \in JobIds |-> << >>]
    /\ mesh_files = << >>
    /\ upload_dir = << >>
    /\ container = [j \in JobIds |-> IF wpc[j] \in NotStarted THEN 0 ELSE j]
    /\ resp = NoResponse

\* ======================= Modal deployment ================================

\* ---- job records written by modal_app.py --------------------------------
CeilDiv(a, b) == (a + b - 1) \div b

\* Mutant: the position is the bare count.
QueuePositionBareCount(queued_count) == queued_count

\* generate_splat: position and wait computed from the counted jobs.
QueuePosition(queued_count) == queued_count + 1

\* Mutant: the wait divides the position by the concurrency first.
EstimatedWaitSecondsPerSlot(queued_count) ==
    CeilDiv(queued_count + 1, maxConcurrent) * AverageJobSeconds

EstimatedWaitSeconds(queued_count) == (queued_count + 1) * AverageJobSeconds

\* Mutant: the record is created already `processing`.
QueuedRecordProcessing(j, queued_count) ==
    [jobId |-> j, status |-> "processing",
     queuePosition |-> QueuePosition(queued_count),
     estimatedWaitSeconds |-> EstimatedWaitSeconds(queued_count)]

QueuedRecord(j, queued_count) ==
    [jobId |-> j, status |-> "queued",
     queuePosition |-> QueuePosition(queued_count),
     estimatedWaitSeconds |-> EstimatedWaitSeconds(queued_count)]

\* Mutant: the position fields of the queued record are carried over.
ProcessingRecordKeepsPosition(j) ==
    [jobId |-> j, status |-> "processing",
     statusDetail |-> "Running Sharp inference...",
     queuePosition |-> job_dict[j].queuePosition,
     estimatedWaitSeconds |-> job_dict[j].estimatedWaitSeconds]

ProcessingRecord(j) ==
    [jobId |-> j, status |-> "processing",
     statusDetail |-> "Running Sharp inference...",
     queuePosition |-> 0, estimatedWaitSeconds |-> 0]

CompleteRecord(j, elapsed_ms) ==
    [jobId |-> j, status |-> "complete", statusDetail |-> "Complete",
     splatUrl |-> [job |-> j, name |-> "splat.ply"],
     splatPath |-> [job |-> j, name |-> "splat.ply"],
     processingTimeMs |-> elapsed_ms,
     queuePosition |-> 0, estimatedWaitSeconds |-> 0]

\* Mutant: the error fields are merged into the stored record instead of
\* replacing it.
ErrorRecordMerged(j, error_msg) ==
    [status |-> "error", error |-> error_msg,
     statusDetail |-> "Inference failed",
     queuePosition |-> 0, estimatedWaitSeconds |-> 0] @@ job_dict[j]

ErrorRecord(j, error_msg) ==
    [jobId |-> j, status |-> "error", error |-> error_msg,
     statusDetail |-> "Inference failed",
     queuePosition |-> 0, estimatedWaitSeconds |-> 0]

\* str(e) of whatever exception reached the handler of run_inference.
ExceptionText == "str(e)"

\* Jobs the counting loop of generate_splat would count.
Inflight(d) == {k \in DOMAIN d : d[k].status \in {"queued", "processing"}}

\* ---- POST /api/upload ---------------------------------------------------
\* The file is written and the volume committed.  When the commit raises the
\* request fails with 500 and the new image id is never disclosed, so no
\* later request names that file: it is not tracked.
upload_image ==
    /\ deployment = "modal"
    /\ \E u \in Fresh(UploadIds, upload_files), commit_ok \in BOOLEAN :
        upload_files' = IF commit_ok THEN upload_files \cup {u} ELSE upload_files
    /\ resp' = NoResponse
    /\ UNCHANGED <<deployment, container, job_dict, stats_dict, wpc,
                   splat_files, serverVars, steppedVars>>

\* ---- POST /api/generate -------------------------------------------------
\* Mutant: the lookup of the upload never fails.
UploadFoundAlways(image_id, files) == TRUE

\* The glob for the upload's file finds one exactly when it was stored.
UploadFound(image_id, files) == image_id \in files

\* Mutant: run_inference is spawned before the record is stored.
SpawnedCallsBeforeWrite(w, job_id, write_ok) == [w EXCEPT ![job_id] = "spawned"]

\* run_inference.spawn is reached only when the store write returned.
SpawnedCalls(w, job_id, write_ok) ==
    IF write_ok THEN [w EXCEPT ![job_id] = "spawned"] ELSE w

\* The handler has no await: it runs to its end without another handler of
\* the container running in between.  It looks the upload up, counts the jobs
\* that are queued or processing, stores the queued record, spawns
\* run_inference and answers.
\*  - the counting loop swallows every exception, so a store fault part-way
\*    leaves a partial count (c below the number of in-flight jobs); the same
\*    counts arise when another container stores a job during the count;
\*  - a failing store write propagates (500) before anything is spawned.
generate_splat ==
    /\ deployment = "modal"
    /\ \E image_id \in UploadIds :
        IF ~UploadFound(image_id, upload_files)
        THEN /\ resp' = [code |-> 404, imageId |-> image_id]
             /\ UNCHANGED <<job_dict, wpc>>
        ELSE \E job_id \in Fresh(JobIds, DOMAIN job_dict),
                queued_count \in 0..Cardinality(Inflight(job_dict)),
                write_ok \in BOOLEAN :
             /\ wpc' = SpawnedCalls(wpc, job_id, write_ok)
             /\ IF write_ok
                THEN
                  /\ job_dict' = Put(job_dict, job_id,
                                     QueuedRecord(job_id, queued_count))
                  /\ resp' = [code |-> 200, imageId |-> image_id,
                              body |-> [jobId |-> job_id, status |-> "queued",
                                        queuePosition |->
                                            QueuePosition(queued_count),
                                        estimatedWaitSeconds |->
                                            EstimatedWaitSeconds(queued_count)]]
                ELSE
                  /\ resp' = [code |-> 500, imageId |-> image_id]
                  /\ UNCHANGED job_dict
    /\ UNCHANGED <<deployment, container, upload_files, stats_dict, splat_files, serverVars, steppedVars>>

\* ---- SharpInference.run_inference ---------------------------------------
\* A container of the class loads the model once (load_model) and then
\* serves one call after another.  The call of job j is served by a new
\* container, named j, or by one whose earlier calls have all returned.  The
\* two differ only when an earlier call left a file uncommitted on the
\* volume mount, so only those containers are told apart from a new one.
Containers(j) ==
    {j} \cup {container[k] : k \in {m \in JobIds :
                  /\ wpc[m] = "done"
                  /\ splat_files[m] = "local"
                  /\ \A n \in JobIds :
                         container[n] = container[m] => wpc[n] = "done"}}

\* Start of the call: reload the volume, check the input file, write
\* `processing`.  Both checks sit inside the try block whose handler writes
\* `error`.  The image_path argument names a file generate_splat found, which
\* upload_image had committed and nothing deletes, so after a reload that
\* succeeded the existence check passes.
run_inference_start(j) ==
    /\ deployment = "modal"
    /\ wpc[j] = "spawned"
    /\ \E c \in Containers(j), reload_ok \in BOOLEAN :
        /\ container' = [container EXCEPT ![j] = c]
        /\ IF ~reload_ok
           THEN /\ job_dict' = Put(job_dict, j, ErrorRecord(j, ExceptionText))
                /\ wpc' = [wpc EXCEPT ![j] = "done"]
           ELSE /\ job_dict' = Put(job_dict, j, ProcessingRecord(j))
                /\ wpc' = [wpc EXCEPT ![j] = "inferring"]
    /\ resp' = NoResponse
    /\ UNCHANGED <<deployment, upload_files, stats_dict, splat_files, serverVars, steppedVars>>

\* Mutant: what is raised on the way leaves the call, and the record is not
\* written.
run_inference_infer_escapes(j) ==
    /\ deployment = "modal"
    /\ wpc[j] = "inferring"
    /\ \E outcome \in {"ok", "raise"} :
        IF outcome = "ok"
        THEN \E elapsed_ms \in ElapsedValues :
             /\ splat_files' = [splat_files EXCEPT ![j] = "local"]
             /\ job_dict' = Put(job_dict, j, CompleteRecord(j, elapsed_ms))
             /\ wpc' = [wpc EXCEPT ![j] = "completing"]
        ELSE /\ wpc' = [wpc EXCEPT ![j] = "done"]
             /\ UNCHANGED <<job_dict, splat_files>>
    /\ resp' = NoResponse
    /\ UNCHANGED <<deployment, container, upload_files, stats_dict, serverVars, steppedVars>>

\* Inference, save_ply, colour post-processing and the `complete` write.
\* Anything raised on the way is caught and written as `error`.
run_inference_infer(j) ==
    /\ deployment = "modal"
    /\ wpc[j] = "inferring"
    /\ \E outcome \in {"ok", "raise"} :
        IF outcome = "ok"
        THEN \E elapsed_ms \in ElapsedValues :
             /\ splat_files' = [splat_files EXCEPT ![j] = "local"]
             /\ job_dict' = Put(job_dict, j, CompleteRecord(j, elapsed_ms))
             /\ wpc' = [wpc EXCEPT ![j] = "completing"]
        ELSE /\ job_dict' = Put(job_dict, j, ErrorRecord(j, ExceptionText))
             /\ wpc' = [wpc EXCEPT ![j] = "done"]
             /\ UNCHANGED splat_files
    /\ resp' = NoResponse
    /\ UNCHANGED <<deployment, container, upload_files, stats_dict, serverVars, steppedVars>>

\* Statistics: append the timestamp, keep the last StatsCap, bump the
\* counter.
\* Mutant: the first n entries are kept.
FirstN(s, n) == IF Len(s) > n THEN SubSeq(s, 1, n) ELSE s

LastN(s, n) == IF Len(s) > n THEN SubSeq(s, Len(s) - n + 1, Len(s)) ELSE s

\* completions.append(current_time), then the cut to the last StatsCap.
AppendCapped(completions, current_time) ==
    LastN(Append(completions, current_time), StatsCap)

RecordCompletion(stats, current_time) ==
    [completions |-> AppendCapped(stats.completions, current_time),
     total_count |-> stats.total_count + 1]

\* Mutant: a failing statistics store ends in the `error` write.
StatsExceptHandlerReraises(d, j) == Put(d, j, ErrorRecord(j, ExceptionText))

\* The statistics block's own handler only prints: the job store is left
\* as it is.
StatsExceptHandler(d, j) == d

\* outputs_volume.commit() persists the volume as the container of the call
\* has it mounted: the file of the call and the files that calls this
\* container served before wrote and left uncommitted.
CommitVolume(files, j) ==
    [k \in JobIds |->
        IF k = j \/ (container[k] = container[j] /\ files[k] = "local")
        THEN "committed" ELSE files[k]]

\* outputs_volume.commit() after the `complete` write, then the statistics.
\* The commit is still inside the try block, so a commit that raises ends in
\* the `error` write; the statistics have a try/except of their own, which
\* swallows a failing statistics store.
run_inference_commit(j) ==
    /\ deployment = "modal"
    /\ wpc[j] = "completing"
    /\ \E commit_ok \in BOOLEAN :
        IF commit_ok
        THEN /\ splat_files' = CommitVolume(splat_files, j)
             /\ \E stats_ok \in BOOLEAN :
                    IF stats_ok
                    THEN /\ \E current_time \in Times :
                              stats_dict' =
                                  RecordCompletion(stats_dict, current_time)
                         /\ UNCHANGED job_dict
                    ELSE /\ UNCHANGED stats_dict
                         /\ job_dict' = StatsExceptHandler(job_dict, j)
        ELSE /\ job_dict' = Put(job_dict, j, ErrorRecord(j, ExceptionText))
             /\ UNCHANGED <<splat_files, stats_dict>>
    /\ wpc' = [wpc EXCEPT ![j] = "done"]
    /\ resp' = NoResponse
    /\ UNCHANGED <<deployment, container, upload_files, serverVars, steppedVars>>

\* The platform ends a call that runs longer than timeout=600; nothing in
\* run_inference runs after that.
run_inference_timeout(j) ==
    /\ deployment = "modal"
    /\ wpc[j] \in {"inferring", "completing"}
    /\ wpc' = [wpc EXCEPT ![j] = "killed"]
    /\ resp' = NoResponse
    /\ UNCHANGED <<deployment, container, upload_files, job_dict, stats_dict,
                   splat_files, serverVars, steppedVars>>

\* ===================== standalone server ================================

\* SplatJob written by generate_splat (routes/inference.py).
InitialJob(j, image_id) ==
    [jobId |-> j, imageId |-> image_id, status |-> "processing"]

CompleteJob(j, image_id, processing_time) ==
    [jobId |-> j, imageId |-> image_id, status |-> "complete",
     splatUrl |-> [job |-> j], splatPath |-> [job |-> j, name |-> "splat.ply"],
     processingTimeMs |-> processing_time]

ErrorJob(j, image_id, result, processing_time) ==
    [jobId |-> j, imageId |-> image_id, status |-> "error",
     error |-> result, processingTimeMs |-> processing_time]

\* Failure results of SharpRunner.predict.
PredictErrors ==
    {"Sharp prediction failed", "No .ply output generated",
     "Processing timeout exceeded", "Sharp CLI not found"}

server_upload_image ==
    /\ deployment = "server"
    /\ \E u \in UploadIds :
        /\ u \in Fresh(UploadIds, uploads)
        /\ uploads' = uploads \cup {u}
    /\ resp' = NoResponse
    /\ UNCHANGED <<deployment, jobs, tasks, modalVars, steppedVars>>

server_generate_splat ==
    /\ deployment = "server"
    /\ \E image_id \in UploadIds :
        IF image_id \notin uploads
        THEN /\ resp' = [code |-> 404, imageId |-> image_id]
             /\ UNCHANGED <<jobs, tasks>>
        ELSE \E j \in Fresh(JobIds, DOMAIN jobs) :
             /\ jobs' = Put(jobs, j, InitialJob(j, image_id))
             /\ tasks' = [tasks EXCEPT ![j] = "pending"]
             /\ resp' = [code |-> 200, imageId |-> image_id,
                         body |-> InitialJob(j, image_id)]
    /\ UNCHANGED <<deployment, uploads, modalVars, steppedVars>>

\* Background task: predict, then one write of the terminal record.
run_sharp_prediction(j) ==
    /\ deployment = "server"
    /\ tasks[j] = "pending"
    /\ j \in DOMAIN jobs
    /\ \E success \in BOOLEAN, processing_time \in ElapsedValues :
        IF success
        THEN jobs' = Put(jobs, j, CompleteJob(j, jobs[j].imageId, processing_time))
        ELSE \E result \in PredictErrors :
             jobs' = Put(jobs, j, ErrorJob(j, jobs[j].imageId, result, processing_time))
    /\ tasks' = [tasks EXCEPT ![j] = "done"]
    /\ resp' = NoResponse
    /\ UNCHANGED <<deployment, uploads, modalVars, steppedVars>>

\* ===================== GET /api/download (Modal) =========================

\* A path parameter of the URL is a string, modelled as the sequence of its
\* pieces: the separators "/" and "\\", the dot ".", and one piece for each
\* run of other characters.
ArtifactFile == <<"splat.ply">>
OtherFile == <<"model.ply">>
DotDot == <<".", ".">>
JobName(j) == <<ToString(j)>>

\* The job_id and filename parameters the requests of the model carry.
DownloadJobIds == {JobName(1), DotDot, <<".", ".", "/", "1">>}
DownloadFilenames ==
    {ArtifactFile, OtherFile, DotDot, <<".", ".", "/", "splat.ply">>,
     <<".", ".", "\\", "splat.ply">>}

\* os.path.basename: what follows the last "/".
Basename(path) ==
    LET seps == {i \in 1..Len(path) : path[i] = "/"} IN
    IF seps = {} THEN path
    ELSE SubSeq(path, (CHOOSE i \in seps : \A k \in seps : k <= i) + 1, Len(path))

\* Mutant: a reload brings nothing new into view.
CommittedNotReloaded == {}

\* The jobs whose output a reload of the volume brings into view.
Committed == {j \in JobIds : splat_files[j] = "committed"}

\* /outputs/splats/<job_id> after a reload: the directory of a job, the
\* volume root reached through "..", or nothing.
SplatDir(job_id, committed) ==
    IF \E j \in committed : job_id = JobName(j) THEN "job"
    ELSE IF job_id = DotDot /\ committed # {} THEN "root"
    ELSE "none"

\* /outputs/splats/<job_id>/<filename> after a reload: the artifact, a
\* directory (the parent of splat_dir), or nothing.
FilePath(job_id, filename, committed) ==
    LET splat_dir == SplatDir(job_id, committed) IN
    IF splat_dir = "none" THEN "none"
    ELSE IF filename = DotDot THEN "dir"
    ELSE IF splat_dir = "job" /\ filename = ArtifactFile THEN "file"
    ELSE "none"

\* Mutant: the glob also finds a file when splat_dir is the volume root.
PlyFilesAnyDir(job_id, committed) == SplatDir(job_id, committed) # "none"

\* splat_dir.glob("*.ply") finds a file.
PlyFiles(job_id, committed) == SplatDir(job_id, committed) = "job"

\* ply_files[0]: the directory of a job holds the one file run_inference
\* saved there.
FoundFile(job_id) == <<job_id, ArtifactFile>>

\* Mutant: the handler also waits after the last attempt.
SleepsAfterEvery(attempt) == TRUE

\* The wait after an attempt that found nothing.
SleepsAfter(attempt) == attempt < max_retries - 1

\* The request arrives; both parameters are compared with their basename
\* before anything else is done.
download_file_begin ==
    /\ deployment = "modal"
    /\ dl.pc = "idle"
    /\ \E job_id \in DownloadJobIds, filename \in DownloadFilenames :
        IF Basename(job_id) # job_id \/ Basename(filename) # filename
        THEN /\ dl' = [dl EXCEPT !.pc = "done", !.job_id = job_id,
                                 !.filename = filename, !.code = 400]
             /\ resp' = [code |-> 400]
        ELSE /\ dl' = [dl EXCEPT !.pc = "attempt", !.job_id = job_id,
                                 !.filename = filename]
             /\ resp' = NoResponse
    /\ UNCHANGED <<deployment, modalVars, serverVars, recorders, report, artifactVars>>

\* One turn of the retry loop: reload the volume, look for the exact file,
\* then for any .ply of the directory.  A reload that raises ends the
\* request (500); FileResponse of a path that is no regular file raises
\* when the response is sent (500).
download_file_attempt ==
    /\ deployment = "modal"
    /\ dl.pc = "attempt"
    /\ \E reload_ok \in BOOLEAN :
        LET file_path == FilePath(dl.job_id, dl.filename, Committed)
            after == [dl EXCEPT !.attempt = @ + 1,
                                !.reloads = IF reload_ok THEN @ + 1 ELSE @]
        IN
        IF ~reload_ok \/ file_path = "dir"
        THEN /\ dl' = [after EXCEPT !.pc = "done", !.code = 500]
             /\ resp' = [code |-> 500]
        ELSE IF file_path = "file"
        THEN /\ dl' = [after EXCEPT !.pc = "done", !.code = 200]
             /\ resp' = [code |-> 200, served |-> "exact",
                         path |-> <<dl.job_id, dl.filename>>]
        ELSE IF PlyFiles(dl.job_id, Committed)
        THEN /\ dl' = [after EXCEPT !.pc = "done", !.code = 200]
             /\ resp' = [code |-> 200, served |-> "fallback",
                         path |-> FoundFile(dl.job_id)]
        ELSE IF SleepsAfter(dl.attempt)
        THEN /\ dl' = [after EXCEPT !.pc = "sleep"]
             /\ resp' = NoResponse
        ELSE IF dl.attempt + 1 < max_retries
        THEN /\ dl' = after
             /\ resp' = NoResponse
        ELSE /\ dl' = [after EXCEPT !.pc = "done", !.code = 404]
             /\ resp' = [code |-> 404]
    /\ UNCHANGED <<deployment, modalVars, serverVars, recorders, report, artifactVars>>

\* asyncio.sleep(2) between two attempts.
download_file_sleep ==
    /\ deployment = "modal"
    /\ dl.pc = "sleep"
    /\ dl' = [dl EXCEPT !.pc = IF dl.attempt < max_retries THEN "attempt" ELSE "done",
                        !.code = IF dl.attempt < max_retries THEN 0 ELSE 404,
                        !.sleeps = @ + 1,
                        !.clock = @ + RetryWaitSeconds]
    /\ resp' = IF dl.attempt < max_retries THEN NoResponse ELSE [code |-> 404]
    /\ UNCHANGED <<deployment, modalVars, serverVars, recorders, report, artifactVars>>

\* Time goes on after the request was answered.
time_passes ==
    /\ deployment = "modal"
    /\ dl.pc = "done"
    /\ dl.clock < MaxClock
    /\ dl' = [dl EXCEPT !.clock = @ + 1]
    /\ resp' = NoResponse
    /\ UNCHANGED <<deployment, modalVars, serverVars, recorders, report, artifactVars>>

\* ===================== statistics (Modal) ================================

\* ---- the statistics block of run_inference, one store access a step -----
\* Every access of the store can raise; the block's handler prints and the
\* call goes on to its end.
record_read_completions(r) ==
    /\ deployment = "modal"
    /\ recorders[r].pc = "idle"
    /\ \E current_time \in CompletionTimes, ok \in BOOLEAN :
        recorders' = [recorders EXCEPT ![r] =
            IF ok THEN [pc |-> "write_completions", current_time |-> current_time,
                        completions |-> stats_dict.completions, total_count |-> 0]
                  ELSE [IdleRecorder EXCEPT !.pc = "failed"]]
    /\ resp' = NoResponse
    /\ UNCHANGED <<deployment, modalVars, serverVars, dl, report, artifactVars>>

record_write_completions(r) ==
    /\ deployment = "modal"
    /\ recorders[r].pc = "write_completions"
    /\ \E ok \in BOOLEAN :
        IF ok
        THEN /\ stats_dict' =
                    [stats_dict EXCEPT !.completions =
                        AppendCapped(recorders[r].completions,
                                     recorders[r].current_time)]
             /\ recorders' = [recorders EXCEPT ![r] =
                    [IdleRecorder EXCEPT !.pc = "read_total"]]
        ELSE /\ recorders' = [recorders EXCEPT ![r] =
                    [IdleRecorder EXCEPT !.pc = "failed"]]
             /\ UNCHANGED stats_dict
    /\ resp' = NoResponse
    /\ UNCHANGED <<deployment, container, upload_files, job_dict, wpc, splat_files,
                   serverVars, dl, report, artifactVars>>

record_read_total(r) ==
    /\ deployment = "modal"
    /\ recorders[r].pc = "read_total"
    /\ \E ok \in BOOLEAN :
        recorders' = [recorders EXCEPT ![r] =
            IF ok THEN [IdleRecorder EXCEPT !.pc = "write_total",
                                            !.total_count = stats_dict.total_count]
                  ELSE [IdleRecorder EXCEPT !.pc = "failed"]]
    /\ resp' = NoResponse
    /\ UNCHANGED <<deployment, modalVars, serverVars, dl, report, artifactVars>>

record_write_total(r) ==
    /\ deployment = "modal"
    /\ recorders[r].pc = "write_total"
    /\ \E ok \in BOOLEAN :
        IF ok
        THEN /\ stats_dict' = [stats_dict EXCEPT !.total_count =
                                   recorders[r].total_count + 1]
             /\ recorders' = [recorders EXCEPT ![r] =
                    [IdleRecorder EXCEPT !.pc = "done"]]
        ELSE /\ recorders' = [recorders EXCEPT ![r] =
                    [IdleRecorder EXCEPT !.pc = "failed"]]
             /\ UNCHANGED stats_dict
    /\ resp' = NoResponse
    /\ UNCHANGED <<deployment, container, upload_files, job_dict, wpc, splat_files,
                   serverVars, dl, report, artifactVars>>

\* ---- GET /api/stats -----------------------------------------------------
\* len([t for t in completions if t > bound])
CountAfter(completions, bound) ==
    Cardinality({i \in 1..Len(completions) : completions[i] > bound})

\* len([t for t in completions if start < t <= end])
CountBetween(completions, start, end) ==
    Cardinality({i \in 1..Len(completions) :
                    start < completions[i] /\ completions[i] <= end})

Reverse(s) == [k \in 1..Len(s) |-> s[Len(s) - k + 1]]

\* Mutant: the list is returned in the order the loop built it.
HourlyBreakdownNewestFirst(completions, now) ==
    [k \in 1..BreakdownHours |->
        CountBetween(completions, now - k * HourSeconds,
                     now - (k - 1) * HourSeconds)]

\* The loop appends the count of hour i = 0..23 before now, then the list
\* is reversed.
HourlyBreakdown(completions, now) ==
    Reverse([k \in 1..BreakdownHours |->
                CountBetween(completions, now - ((k - 1) + 1) * HourSeconds,
                             now - (k - 1) * HourSeconds)])

UsageStats(completions, total_count, job_records, now) ==
    [allTime |-> total_count,
     thisYear |-> CountAfter(completions, now - YearSeconds),
     thisMonth |-> CountAfter(completions, now - MonthSeconds),
     thisDay |-> CountAfter(completions, now - DaySeconds),
     thisHour |-> CountAfter(completions, now - HourSeconds),
     queueLength |-> Cardinality(StatusIn(job_records, "pending")),
     activeJobs |-> Cardinality(StatusIn(job_records, "processing")),
     hourlyBreakdown |-> HourlyBreakdown(completions, now)]

\* GET /api/queue: the loop of get_queue_status over the job records.
QueueStatus(job_records) ==
    [activeJobs |-> Cardinality(StatusIn(job_records, "processing")),
     queuedJobs |-> Cardinality(StatusIn(job_records, "queued")),
     maxConcurrent |-> maxConcurrent]

\* The first store access of the handler: the list of completions.
get_usage_stats_read ==
    /\ deployment = "modal"
    /\ report.pc = "idle"
    /\ \E ok \in BOOLEAN :
        IF ok
        THEN /\ report' = [pc |-> "read", completions |-> stats_dict.completions]
             /\ resp' = NoResponse
        ELSE /\ report' = IdleReport
             /\ resp' = [code |-> 500]
    /\ UNCHANGED <<deployment, modalVars, serverVars, dl, recorders, artifactVars>>

\* The counter and the job records are read, the clock is read, the report
\* is computed and returned.
get_usage_stats_respond ==
    /\ deployment = "modal"
    /\ report.pc = "read"
    /\ \E now \in ReportTimes, ok \in BOOLEAN :
        resp' = IF ok
                THEN [code |-> 200, now |-> now,
                      body |-> UsageStats(report.completions,
                                          stats_dict.total_count, job_dict, now)]
                ELSE [code |-> 500]
    /\ report' = IdleReport
    /\ UNCHANGED <<deployment, modalVars, serverVars, dl, recorders, artifactVars>>

\* ===================== GET /api/status ===================================

\* The fields of the SplatJob model of modal_app.py.
SplatJobFields ==
    {"jobId", "status", "statusDetail", "splatUrl", "splatPath",
     "processingTimeMs", "error", "queuePosition", "estimatedWaitSeconds"}

\* Mutant: the position fields are not part of the response model.
SplatJobNoPosition(job) ==
    [f \in (DOMAIN job) \ {"queuePosition", "estimatedWaitSeconds"} |-> job[f]]

\* SplatJob(**job): the keys of the record that are fields of the model.
SplatJob(job) == [f \in (DOMAIN job) \cap SplatJobFields |-> job[f]]

\* Modal: one read of the job store; a store that raises ends the request
\* with 500.
get_status ==
    /\ deployment = "modal"
    /\ \E job_id \in JobIds, ok \in BOOLEAN :
        resp' = IF ~ok THEN [code |-> 500, job_id |-> job_id]
                ELSE IF job_id \notin DOMAIN job_dict
                THEN [code |-> 404, job_id |-> job_id]
                ELSE [code |-> 200, job_id |-> job_id,
                      body |-> SplatJob(job_dict[job_id])]
    /\ UNCHANGED <<deployment, modalVars, serverVars, steppedVars>>

\* Standalone server: a lookup in the `jobs` dict.
server_get_status ==
    /\ deployment = "server"
    /\ \E job_id \in JobIds :
        resp' = IF job_id \notin DOMAIN jobs
                THEN [code |-> 404, job_id |-> job_id]
                ELSE [code |-> 200, job_id |-> job_id, body |-> jobs[job_id]]
    /\ UNCHANGED <<deployment, modalVars, serverVars, steppedVars>>

\* ---- add_blender_vertex_colors ------------------------------------------
\* A PLY file is its header comments and its elements in file order; an
\* element is its name, its property names and its rows.  The f_dc_* fields
\* hold hundredths, `opacity` whole numbers.
Range(s) == {s[i] : i \in DOMAIN s}

\* Calls of add_blender_vertex_colors followed on one file.
MaxCalls == 2

ColorFields == <<"red", "green", "blue", "alpha">>

\* SH_C0 = 0.28209479177387814, in ten-thousandths.
SH_C0 == 2821

\* np.clip(num / den, 0, 255).astype(np.uint8): the cast cuts the fraction.
ClipToUint8(num, den) ==
    IF num <= 0 THEN 0
    ELSE IF num >= 255 * den THEN 255
    ELSE num \div den

\* Mutant: the 0.5 offset is left out.
ChannelNoOffset(f_dc) == ClipToUint8(SH_C0 * f_dc * 255, 10000 * 100)

\* np.clip((0.5 + SH_C0 * f_dc) * 255, 0, 255).astype(np.uint8)
Channel(f_dc) == ClipToUint8((5000 * 100 + SH_C0 * f_dc) * 255, 10000 * 100)

\* e in hundredths, and np.exp(n) in hundredths for a natural n.
ExpBase == 272

RECURSIVE Exp(_)
Exp(n) == IF n = 0 THEN 100 ELSE (Exp(n - 1) * ExpBase) \div 100

\* np.clip(1.0 / (1.0 + np.exp(-opacity)) * 255, 0, 255).astype(np.uint8)
Alpha(opacity) ==
    IF opacity >= 0
    THEN ClipToUint8(255 * Exp(opacity), Exp(opacity) + 100)
    ELSE ClipToUint8(255 * 100, 100 + Exp(-opacity))

PlyFile(comments, elements) ==
    [exists |-> TRUE, valid |-> TRUE, comments |-> comments,
     elements |-> elements]

\* What a copy that stopped after opening its destination leaves there.
TruncatedFile ==
    [exists |-> TRUE, valid |-> FALSE, comments |-> << >>, elements |-> << >>]

HasVertex(file) == \E i \in DOMAIN file.elements : file.elements[i].name = "vertex"

\* ply['vertex']
VertexOf(file) ==
    file.elements[CHOOSE i \in DOMAIN file.elements :
                      file.elements[i].name = "vertex"]

\* PlyData.read(str(ply_path)) and ply['vertex'] succeed.
Readable(file) == file.exists /\ file.valid /\ HasVertex(file)

\* if 'red' in vertex.data.dtype.names: return
AlreadyColored(names) == "red" \in Range(names)

\* The four source fields are read, and np.empty takes the new dtype only
\* if no name occurs twice in it.
Encodable(names) ==
    /\ {"f_dc_0", "f_dc_1", "f_dc_2", "opacity"} \subseteq Range(names)
    /\ Range(names) \cap Range(ColorFields) = {}

\* One row of new_data: every old field copied, the four colour fields set.
ColoredPoint(p) ==
    [f \in DOMAIN p \cup Range(ColorFields) |->
        IF f = "red" THEN Channel(p.f_dc_0)
        ELSE IF f = "green" THEN Channel(p.f_dc_1)
        ELSE IF f = "blue" THEN Channel(p.f_dc_2)
        ELSE IF f = "alpha" THEN Alpha(p.opacity)
        ELSE p[f]]

\* new_ply: the new vertex element first, the other elements after it, and
\* a fresh header.
Colored(file) ==
    LET vertex == VertexOf(file)
        new_vertex ==
            [name |-> "vertex",
             names |-> vertex.names \o ColorFields,
             data |-> [i \in DOMAIN vertex.data |->
                          ColoredPoint(vertex.data[i])]]
    IN PlyFile(<< >>, <<new_vertex>> \o
                      SelectSeq(file.elements, LAMBDA e : e.name # "vertex"))

\* Mutant: no early return, and colour fields that exist are overwritten.
ColorOutcomesRewrites(file) ==
    IF ~Readable(file)
       \/ ~({"f_dc_0", "f_dc_1", "f_dc_2", "opacity"}
                \subseteq Range(VertexOf(file).names))
    THEN {[file |-> file, log |-> "warning"]}
    ELSE LET vertex == VertexOf(file)
             plain == SelectSeq(vertex.names,
                                LAMBDA n : n \notin Range(ColorFields))
             new_vertex ==
                 [name |-> "vertex",
                  names |-> plain \o ColorFields,
                  data |-> [i \in DOMAIN vertex.data |->
                               ColoredPoint(vertex.data[i])]]
         IN {[file |-> PlyFile(<< >>, <<new_vertex>> \o
                          SelectSeq(file.elements,
                                    LAMBDA e : e.name # "vertex")),
              log |-> "added"]}

\* The file the call leaves at ply_path and the line it prints.  Whatever
\* is raised inside is caught and printed as a warning.  The new file is
\* written to a temporary file in the default temporary directory and moved
\* over ply_path on the outputs volume: a move across file systems is a
\* copy, and a copy that fails after opening ply_path leaves it truncated.
ColorOutcomes(file) ==
    IF ~Readable(file)
    THEN {[file |-> file, log |-> "warning"]}
    ELSE IF AlreadyColored(VertexOf(file).names)
    THEN {[file |-> file, log |-> ""],
          [file |-> file, log |-> "warning"]}
    ELSE IF ~Encodable(VertexOf(file).names)
    THEN {[file |-> file, log |-> "warning"]}
    ELSE {[file |-> Colored(file), log |-> "added"],
          [file |-> file, log |-> "warning"],
          [file |-> TruncatedFile, log |-> "warning"]}

\* Mutant: every job's file is at one path, that of job 1.
ColorStepSharedPath(j) ==
    /\ Len(color_log[j]) < MaxCalls
    /\ \E o \in ColorOutcomes(ply_files[1]) :
        /\ ply_files' = [ply_files EXCEPT ![1] = o.file]
        /\ color_log' = [color_log EXCEPT ![j] = Append(@, o.log)]
    /\ UNCHANGED <<mesh_files, upload_dir>>

\* One call of add_blender_vertex_colors on the file of job j.
ColorStep(j) ==
    /\ Len(color_log[j]) < MaxCalls
    /\ \E o \in ColorOutcomes(ply_files[j]) :
        /\ ply_files' = [ply_files EXCEPT ![j] = o.file]
        /\ color_log' = [color_log EXCEPT ![j] = Append(@, o.log)]
    /\ UNCHANGED <<mesh_files, upload_dir>>

\* The function called on a file that no call of run_inference is working
\* on.
add_blender_vertex_colors(j) ==
    /\ deployment = "modal"
    /\ wpc[j] = "none"
    /\ ColorStep(j)
    /\ resp' = NoResponse
    /\ UNCHANGED <<deployment, modalVars, serverVars, dl, recorders, report>>

\* ---- files given to add_blender_vertex_colors ---------------------------
MaxPoints == 3

SamplePoints ==
    {[x |-> 1, y |-> 0, z |-> 0,
      f_dc_0 |-> 0, f_dc_1 |-> 0, f_dc_2 |-> 0, opacity |-> 0],
     [x |-> 2, y |-> 0, z |-> 0,
      f_dc_0 |-> 400, f_dc_1 |-> -400, f_dc_2 |-> 100, opacity |-> 10],
     [x |-> 3, y |-> 0, z |-> 0,
      f_dc_0 |-> -100, f_dc_1 |-> 50, f_dc_2 |-> 0, opacity |-> -10]}

SampleData == UNION {[1..n -> SamplePoints] : n \in 0..MaxPoints}

GaussianNames == <<"x", "y", "z", "f_dc_0", "f_dc_1", "f_dc_2", "opacity">>

Vertex(names, data) == [name |-> "vertex", names |-> names, data |-> data]

Extrinsic ==
    [name |-> "extrinsic", names |-> <<"extrinsic">>,
     data |-> <<[extrinsic |-> 1]>>]

\* The vertex element without one of its properties.
WithoutField(vertex, name) ==
    [name |-> "vertex",
     names |-> SelectSeq(vertex.names, LAMBDA n : n # name),
     data |-> [i \in DOMAIN vertex.data |->
                  [f \in DOMAIN vertex.data[i] \ {name} |->
                      vertex.data[i][f]]]]

\* Files as save_ply writes them: the gaussians as the vertex element, and
\* the camera data after it.
PlainFiles ==
    {PlyFile(<< >>, <<Vertex(GaussianNames, d), Extrinsic>>) : d \in SampleData}

\* What save_ply writes to splat.ply in run_inference.
SavedFiles ==
    {PlyFile(<< >>, <<Vertex(GaussianNames, <<p>>), Extrinsic>>) :
        p \in SamplePoints}

\* Files with a header comment and an element in front of the vertices.
CommentedFiles ==
    {PlyFile(<<"comment">>, <<Extrinsic, Vertex(GaussianNames, d)>>) :
        d \in SampleData}

\* Files that have the colour fields, with and without a header comment.
ColoredFiles ==
    {Colored(f) : f \in PlainFiles} \cup
    {[Colored(f) EXCEPT !.comments = <<"comment">>] : f \in CommentedFiles}

\* Files that cannot be encoded: a source field is missing, one colour
\* field other than red exists, there is no vertex element, the file is
\* cut short or is not there.
BrokenFiles ==
    {PlyFile(<< >>, <<WithoutField(Vertex(GaussianNames, d), "opacity")>>) :
        d \in SampleData} \cup
    {PlyFile(<< >>, <<WithoutField(VertexOf(Colored(f)), "red"), Extrinsic>>) :
        f \in PlainFiles} \cup
    {PlyFile(<< >>, <<Extrinsic>>), TruncatedFile, NoFile}

SampleFiles == PlainFiles \cup CommentedFiles \cup ColoredFiles \cup BrokenFiles

\* ---- run_inference, from save_ply to the `complete` write ---------------
\* Inference and save_ply: the file is written, or something is raised and
\* the handler writes `error`.
run_inference_save_ply(j) ==
    /\ deployment = "modal"
    /\ wpc[j] = "inferring"
    /\ \E outcome \in {"ok", "raise"} :
        IF outcome = "ok"
        THEN /\ \E f \in SavedFiles :
                    ply_files' = [ply_files EXCEPT ![j] = f]
             /\ splat_files' = [splat_files EXCEPT ![j] = "local"]
             /\ wpc' = [wpc EXCEPT ![j] = "saved"]
             /\ UNCHANGED job_dict
        ELSE /\ job_dict' = Put(job_dict, j, ErrorRecord(j, ExceptionText))
             /\ wpc' = [wpc EXCEPT ![j] = "done"]
             /\ UNCHANGED <<splat_files, ply_files>>
    /\ resp' = NoResponse
    /\ UNCHANGED <<deployment, container, upload_files, stats_dict, serverVars,
                   dl, recorders, report, color_log, mesh_files, upload_dir>>

\* Mutant: a colour step that printed the warning ends in the `error`
\* write.
run_inference_color_raises(j) ==
    /\ deployment = "modal"
    /\ wpc[j] = "saved"
    /\ ColorStep(j)
    /\ IF color_log'[j][Len(color_log'[j])] = "warning"
       THEN /\ job_dict' = Put(job_dict, j, ErrorRecord(j, ExceptionText))
            /\ wpc' = [wpc EXCEPT ![j] = "done"]
       ELSE /\ UNCHANGED job_dict
            /\ wpc' = [wpc EXCEPT ![j] = "colored"]
    /\ resp' = NoResponse
    /\ UNCHANGED <<deployment, container, upload_files, stats_dict, splat_files,
                   serverVars, dl, recorders, report>>

\* add_blender_vertex_colors(ply_file): the call returns whatever happened
\* inside it, and run_inference goes on.
run_inference_color(j) ==
    /\ deployment = "modal"
    /\ wpc[j] = "saved"
    /\ ColorStep(j)
    /\ wpc' = [wpc EXCEPT ![j] = "colored"]
    /\ resp' = NoResponse
    /\ UNCHANGED <<deployment, container, upload_files, job_dict, stats_dict, splat_files,
                   serverVars, dl, recorders, report>>

\* The `complete` write; a store that raises ends in the handler's `error`
\* write.
run_inference_complete(j) ==
    /\ deployment = "modal"
    /\ wpc[j] = "colored"
    /\ \E outcome \in {"ok", "raise"} :
        IF outcome = "ok"
        THEN \E elapsed_ms \in ElapsedValues :
             /\ job_dict' = Put(job_dict, j, CompleteRecord(j, elapsed_ms))
             /\ wpc' = [wpc EXCEPT ![j] = "completing"]
        ELSE /\ job_dict' = Put(job_dict, j, ErrorRecord(j, ExceptionText))
             /\ wpc' = [wpc EXCEPT ![j] = "done"]
    /\ resp' = NoResponse
    /\ UNCHANGED <<deployment, container, upload_files, stats_dict, splat_files,
                   serverVars, steppedVars>>

\* ---- mesh conversion -----------------------------------------------------
\* Mesh files one behaviour writes.
MaxMeshes == 2

MeshIds == 1..MaxMeshes

\* MeshMethod and ExportFormat.
MeshMethods == {"poisson", "ball_pivoting", "alpha_shape"}

ExportFormats == {"obj", "glb", "ply"}

\* The method values a request can carry: MeshConvertRequest.method is a
\* str.
RequestMethods == MeshMethods \cup {"invalid_method"}

\* The jobs whose splat path a convert request names: two that have a
\* file and one that has none.
ConvertJobIds == {1, 2, 3}

\* The convert request names the splat file of a job.
ConvertRequest(j, method, output_format) ==
    [splat_path |-> j, method |-> method, output_format |-> output_format]

\* Path(splat_path).exists(): the file is there, on Modal after the reload.
SplatExists(j) ==
    /\ ply_files[j].exists
    /\ deployment = "modal" => splat_files[j] = "committed"

\* The positions can be read from the file.
HasPositions(file) ==
    /\ Readable(file)
    /\ {"x", "y", "z"} \subseteq Range(VertexOf(file).names)

\* Modal: the reconstruction run for a method value; the last branch is a
\* plain else.
Reconstruction(method) ==
    IF method = "poisson" THEN "poisson"
    ELSE IF method = "ball_pivoting" THEN "ball_pivoting"
    ELSE "alpha_shape"

\* Modal: f"mesh_{mesh_id}.{request.output_format}"
MeshFilename(mesh_id, output_format) ==
    <<"mesh", ToString(mesh_id), output_format>>

\* Server: f"{base_name}_{method}.{output_format}" with the stem of the
\* splat path, which is `splat` for every job.
ExportFilename(method, output_format) == <<"splat", method, output_format>>

Mesh(j, method, output_format) ==
    [cloud |-> j, method |-> method, format |-> output_format]

\* The mesh ids of the files written so far.
MeshIdsUsed == {i \in MeshIds : \E f \in ExportFormats :
                   MeshFilename(i, f) \in DOMAIN mesh_files}

\* Modal POST /api/mesh/convert.  Everything that is raised inside, apart
\* from the 404, is answered 500; a commit that fails comes after the file
\* was written.
convert_mesh ==
    /\ deployment = "modal"
    /\ \E j \in ConvertJobIds, method \in RequestMethods,
          output_format \in ExportFormats,
          fault \in {"none", "reload", "convert", "commit"} :
        LET request == ConvertRequest(j, method, output_format) IN
        IF fault = "reload"
        THEN /\ resp' = [code |-> 500, request |-> request]
             /\ UNCHANGED mesh_files
        ELSE IF ~SplatExists(j)
        THEN /\ resp' = [code |-> 404, request |-> request]
             /\ UNCHANGED mesh_files
        ELSE IF fault = "convert" \/ ~HasPositions(ply_files[j])
        THEN /\ resp' = [code |-> 500, request |-> request]
             /\ UNCHANGED mesh_files
        ELSE \E mesh_id \in Fresh(MeshIds, MeshIdsUsed) :
             /\ mesh_files' =
                    Put(mesh_files, MeshFilename(mesh_id, output_format),
                        Mesh(j, Reconstruction(method), output_format))
             /\ resp' =
                    IF fault = "commit"
                    THEN [code |-> 500, request |-> request]
                    ELSE [code |-> 200, request |-> request,
                          body |-> [success |-> TRUE,
                                    mesh_filename |->
                                        MeshFilename(mesh_id, output_format),
                                    method |-> method,
                                    format |-> output_format]]
    /\ UNCHANGED <<deployment, modalVars, serverVars, dl, recorders, report,
                   ply_files, color_log, upload_dir>>

\* Server POST /api/mesh/convert.  The request model takes only the three
\* methods and the three formats (422 otherwise).  The 404 the handler
\* raises for a missing file is raised inside its own try block, whose last
\* clause catches it and answers 500.
convert_splat_to_mesh ==
    /\ deployment = "server"
    /\ \E j \in ConvertJobIds, method \in RequestMethods,
          output_format \in ExportFormats, ok \in BOOLEAN :
        LET request == ConvertRequest(j, method, output_format)
            filename == ExportFilename(method, output_format)
        IN
        IF method \notin MeshMethods
        THEN /\ resp' = [code |-> 422, request |-> request]
             /\ UNCHANGED mesh_files
        ELSE IF ~SplatExists(j)
        THEN /\ resp' = [code |-> 500, request |-> request]
             /\ UNCHANGED mesh_files
        ELSE IF ~ok
        THEN /\ resp' = [code |-> 500, request |-> request]
             /\ UNCHANGED mesh_files
        ELSE /\ filename \in DOMAIN mesh_files
                    \/ Cardinality(DOMAIN mesh_files) < MaxMeshes
             /\ mesh_files' = Put(mesh_files, filename,
                                  Mesh(j, method, output_format))
             /\ resp' = [code |-> 200, request |-> request,
                         body |-> [success |-> TRUE,
                                   mesh_filename |-> filename,
                                   method |-> method,
                                   format |-> output_format]]
    /\ UNCHANGED <<deployment, modalVars, serverVars, dl, recorders, report,
                   ply_files, color_log, upload_dir>>

\* ---- POST /api/upload, with the file that is sent ------------------------
\* MAX_FILE_SIZE = 50 * 1024 * 1024
MAX_FILE_SIZE == 52428800

allowed_extensions == {".jpg", ".jpeg", ".png", ".webp", ".gif"}

\* The files the upload requests of the model send: the suffix of the file
\* name, the number of bytes, the content type of the part and whether the
\* bytes are an image PIL can open.
UploadSuffixes == {".jpg", ".JPG", ".php", ""}

UploadSizes == {1024, MAX_FILE_SIZE, MAX_FILE_SIZE + 1}

UploadedFiles ==
    [suffix : UploadSuffixes, size : UploadSizes,
     content_type : {"image/png", "text/html"}, image : BOOLEAN]

\* str.lower() on the suffixes of the model.
Lower(suffix) == IF suffix = ".JPG" THEN ".jpg" ELSE suffix

\* Modal: Path(file.filename or "image.png").suffix.lower() or ".png"
ModalExt(file) == IF Lower(file.suffix) = "" THEN ".png" ELSE Lower(file.suffix)

\* Server: Path(file.filename or "image.jpg").suffix or ".jpg"
ServerExt(file) == IF file.suffix = "" THEN ".jpg" ELSE file.suffix

\* Upload requests the model follows into the uploads directory.
MaxUploadFiles == 2

\* Image ids (uuid4) of the files in the uploads directory.
UploadFileIds == 1..MaxUploadFiles

\* The file as it lies in the uploads directory.
StoredUpload(ext, file) == [ext |-> ext, size |-> file.size]

\* Modal upload_image: the size check, the extension check, the write, the
\* commit, and only then PIL opens the file for its dimensions.  A commit
\* that raises leaves the written file in the container; an Image.open that
\* raises leaves it on the volume.
upload_image_file ==
    /\ deployment = "modal"
    /\ \E file \in UploadedFiles, commit_ok \in BOOLEAN :
        IF file.size > MAX_FILE_SIZE
        THEN /\ resp' = [code |-> 413, file |-> file]
             /\ UNCHANGED <<upload_files, upload_dir>>
        ELSE IF ModalExt(file) \notin allowed_extensions
        THEN /\ resp' = [code |-> 400, file |-> file]
             /\ UNCHANGED <<upload_files, upload_dir>>
        ELSE \E image_id \in Fresh(UploadFileIds, DOMAIN upload_dir) :
             /\ upload_dir' = Put(upload_dir, image_id,
                                  StoredUpload(ModalExt(file), file))
             /\ upload_files' = IF commit_ok THEN upload_files \cup {image_id}
                                ELSE upload_files
             /\ resp' = IF commit_ok /\ file.image
                        THEN [code |-> 200, file |-> file,
                              body |-> [imageId |-> image_id]]
                        ELSE [code |-> 500, file |-> file]
    /\ UNCHANGED <<deployment, container, job_dict, stats_dict, wpc, splat_files,
                   serverVars, dl, recorders, report,
                   ply_files, color_log, mesh_files>>

\* Server upload_image: the content type has to start with image/ and PIL
\* has to open the bytes; then the file is written under the suffix of its
\* name, whatever that is and however long the file.
server_upload_image_file ==
    /\ deployment = "server"
    /\ \E file \in UploadedFiles :
        IF file.content_type # "image/png" \/ ~file.image
        THEN /\ resp' = [code |-> 400, file |-> file]
             /\ UNCHANGED <<uploads, upload_dir>>
        ELSE \E image_id \in Fresh(UploadFileIds, DOMAIN upload_dir) :
             /\ upload_dir' = Put(upload_dir, image_id,
                                  StoredUpload(ServerExt(file), file))
             /\ uploads' = uploads \cup {image_id}
             /\ resp' = [code |-> 200, file |-> file,
                         body |-> [imageId |-> image_id, size |-> file.size]]
    /\ UNCHANGED <<deployment, jobs, tasks, modalVars, dl, recorders, report,
                   ply_files, color_log, mesh_files>>

\* ---- specification ------------------------------------------------------
Next ==
    \/ upload_image
    \/ generate_splat
    \/ \E j \in JobIds : run_inference_start(j)
    \/ \E j \in JobIds : run_inference_infer(j)
    \/ \E j \in JobIds : run_inference_commit(j)
    \/ \E j \in JobIds : run_inference_timeout(j)
    \/ server_upload_image
    \/ server_generate_splat
    \/ \E j \in JobIds : run_sharp_prediction(j)

Spec == Init /\ [][Next]_vars

\* A download request next to the processing of two jobs: the state the
\* upload and two generate requests leave, then the request and the calls.
DownloadInit ==
    /\ deployment = "modal"
    /\ upload_files = {1}
    /\ job_dict = [j \in {1, 2} |-> QueuedRecord(j, j - 1)]
    /\ stats_dict = [completions |-> << >>, total_count |-> 0]
    /\ wpc = [j \in JobIds |-> IF j \in {1, 2} THEN "spawned" ELSE "none"]
    /\ splat_files = [j \in JobIds |-> "none"]
    /\ uploads = {}
    /\ jobs = << >>
    /\ tasks = [j \in JobIds |-> "none"]
    /\ dl = IdleDownload
    /\ recorders = [r \in Recorders |-> IdleRecorder]
    /\ report = IdleReport
    /\ ply_files = [j \in JobIds |-> NoFile]
    /\ color_log = [j \in JobIds |-> << >>]
    /\ mesh_files = << >>
    /\ upload_dir = << >>
    /\ container = [j \in JobIds |-> IF wpc[j] \in NotStarted THEN 0 ELSE j]
    /\ resp = NoResponse

DownloadNext ==
    \/ download_file_begin
    \/ download_file_attempt
    \/ download_file_sleep
    \/ time_passes
    \/ \E j \in JobIds : run_inference_start(j)
    \/ \E j \in JobIds : run_inference_infer(j)
    \/ \E j \in JobIds : run_inference_commit(j)
    \/ \E j \in JobIds : run_inference_timeout(j)

DownloadSpec == DownloadInit /\ [][DownloadNext]_vars

\* Status polls next to the processing of two jobs, in either deployment:
\* the state an upload and two generate requests leave.
PollInit ==
    /\ deployment \in {"modal", "server"}
    /\ upload_files = IF deployment = "modal" THEN {1} ELSE {}
    /\ job_dict = IF deployment = "modal"
                  THEN [j \in {1, 2} |-> QueuedRecord(j, j - 1)] ELSE << >>
    /\ stats_dict = [completions |-> << >>, total_count |-> 0]
    /\ wpc = [j \in JobIds |->
                 IF deployment = "modal" /\ j \in {1, 2} THEN "spawned" ELSE "none"]
    /\ splat_files = [j \in JobIds |-> "none"]
    /\ uploads = IF deployment = "server" THEN {1} ELSE {}
    /\ jobs = IF deployment = "server"
              THEN [j \in {1, 2} |-> InitialJob(j, 1)] ELSE << >>
    /\ tasks = [j \in JobIds |->
                   IF deployment = "server" /\ j \in {1, 2} THEN "pending" ELSE "none"]
    /\ dl = IdleDownload
    /\ recorders = [r \in Recorders |-> IdleRecorder]
    /\ report = IdleReport
    /\ ply_files = [j \in JobIds |-> NoFile]
    /\ color_log = [j \in JobIds |-> << >>]
    /\ mesh_files = << >>
    /\ upload_dir = << >>
    /\ container = [j \in JobIds |-> IF wpc[j] \in NotStarted THEN 0 ELSE j]
    /\ resp = NoResponse

PollNext ==
    \/ get_status
    \/ server_get_status
    \/ \E j \in JobIds : run_inference_start(j)
    \/ \E j \in JobIds : run_inference_infer(j)
    \/ \E j \in JobIds : run_inference_commit(j)
    \/ \E j \in JobIds : run_inference_timeout(j)
    \/ \E j \in JobIds : run_sharp_prediction(j)

PollSpec == PollInit /\ [][PollNext]_vars

\* Completions recorded earlier, one on each side of every window's edge.
History ==
    <<Now - YearSeconds, Now - YearSeconds + 1,
      Now - MonthSeconds, Now - MonthSeconds + 1,
      Now - DaySeconds, Now - DaySeconds + 1,
      Now - 2 * HourSeconds, Now - 2 * HourSeconds + 1>>

\* n completions recorded earlier, one a second.
LongHistory(n) == [i \in 1..n |-> Now - 2 * StatsCap + i]

\* The job store and the calls when MaxRecorders calls have committed
\* their output and reached the statistics block, one more job is being
\* processed and one more is queued.
JobsAtStatistics ==
    /\ deployment = "modal"
    /\ upload_files = {1}
    /\ job_dict = [j \in 1..(MaxRecorders + 2) |->
                      IF j \in Recorders THEN CompleteRecord(j, 1)
                      ELSE IF j = MaxRecorders + 1 THEN ProcessingRecord(j)
                      ELSE QueuedRecord(j, j - 1)]
    /\ wpc = [j \in JobIds |->
                 IF j \in Recorders THEN "recording"
                 ELSE IF j = MaxRecorders + 1 THEN "inferring"
                 ELSE IF j = MaxRecorders + 2 THEN "spawned"
                 ELSE "none"]
    /\ splat_files = [j \in JobIds |->
                         IF j \in Recorders THEN "committed" ELSE "none"]
    /\ uploads = {}
    /\ jobs = << >>
    /\ tasks = [j \in JobIds |-> "none"]
    /\ dl = IdleDownload
    /\ recorders = [r \in Recorders |-> IdleRecorder]
    /\ report = IdleReport
    /\ ply_files = [j \in JobIds |-> NoFile]
    /\ color_log = [j \in JobIds |-> << >>]
    /\ mesh_files = << >>
    /\ upload_dir = << >>
    /\ container = [j \in JobIds |-> IF wpc[j] \in NotStarted THEN 0 ELSE j]
    /\ resp = NoResponse

\* Statistics blocks running together, and usage reports, on a short list.
StatsInit ==
    /\ JobsAtStatistics
    /\ stats_dict \in {[completions |-> << >>, total_count |-> 0],
                        [completions |-> History, total_count |-> Len(History)]}

StatsNext ==
    \/ \E r \in Recorders : record_read_completions(r)
    \/ \E r \in Recorders : record_write_completions(r)
    \/ \E r \in Recorders : record_read_total(r)
    \/ \E r \in Recorders : record_write_total(r)
    \/ get_usage_stats_read
    \/ get_usage_stats_respond

StatsSpec == StatsInit /\ [][StatsNext]_vars

\* Statistics blocks running together on a list that is full or one short
\* of full.
StatsCapInit ==
    /\ JobsAtStatistics
    /\ \E n \in {StatsCap - 1, StatsCap} :
           stats_dict = [completions |-> LongHistory(n), total_count |-> n]

StatsCapNext ==
    \/ \E r \in Recorders : record_read_completions(r)
    \/ \E r \in Recorders : record_write_completions(r)
    \/ \E r \in Recorders : record_read_total(r)
    \/ \E r \in Recorders : record_write_total(r)

StatsCapSpec == StatsCapInit /\ [][StatsCapNext]_vars

\* add_blender_vertex_colors called, again and again, on one file.
ColorInit ==
    /\ deployment = "modal"
    /\ upload_files = {}
    /\ job_dict = << >>
    /\ stats_dict = [completions |-> << >>, total_count |-> 0]
    /\ wpc = [j \in JobIds |-> "none"]
    /\ splat_files = [j \in JobIds |-> "none"]
    /\ uploads = {}
    /\ jobs = << >>
    /\ tasks = [j \in JobIds |-> "none"]
    /\ dl = IdleDownload
    /\ recorders = [r \in Recorders |-> IdleRecorder]
    /\ report = IdleReport
    /\ \E f \in SampleFiles :
           ply_files = [j \in JobIds |-> IF j = 1 THEN f ELSE NoFile]
    /\ color_log = [j \in JobIds |-> << >>]
    /\ mesh_files = << >>
    /\ upload_dir = << >>
    /\ container = [j \in JobIds |-> IF wpc[j] \in NotStarted THEN 0 ELSE j]
    /\ resp = NoResponse

ColorNext == add_blender_vertex_colors(1)

ColorSpec == ColorInit /\ [][ColorNext]_vars

\* Two calls of run_inference, followed from save_ply to the commit.
ArtifactInit == DownloadInit

ArtifactNext ==
    \/ \E j \in JobIds : run_inference_start(j)
    \/ \E j \in JobIds : run_inference_save_ply(j)
    \/ \E j \in JobIds : run_inference_color(j)
    \/ \E j \in JobIds : run_inference_complete(j)
    \/ \E j \in JobIds : run_inference_commit(j)

ArtifactSpec == ArtifactInit /\ [][ArtifactNext]_vars

\* A splat file as save_ply wrote it, and the same file with colours.
MeshSplatFiles ==
    LET f == PlyFile(<< >>, <<Vertex(GaussianNames,
                                     <<CHOOSE p \in SamplePoints : p.x = 1>>),
                              Extrinsic>>)
    IN {f, Colored(f)}

\* Convert requests in either deployment, with the splat files of two
\* finished jobs in place and none for the other ids.
MeshInit ==
    /\ deployment \in {"modal", "server"}
    /\ upload_files = {}
    /\ job_dict = << >>
    /\ stats_dict = [completions |-> << >>, total_count |-> 0]
    /\ wpc = [j \in JobIds |-> "none"]
    /\ splat_files = [j \in JobIds |->
                         IF j \in {1, 2} /\ deployment = "modal"
                         THEN "committed" ELSE "none"]
    /\ uploads = {}
    /\ jobs = << >>
    /\ tasks = [j \in JobIds |-> "none"]
    /\ dl = IdleDownload
    /\ recorders = [r \in Recorders |-> IdleRecorder]
    /\ report = IdleReport
    /\ \E f \in MeshSplatFiles :
           ply_files = [j \in JobIds |-> IF j \in {1, 2} THEN f ELSE NoFile]
    /\ color_log = [j \in JobIds |-> << >>]
    /\ mesh_files = << >>
    /\ upload_dir = << >>
    /\ container = [j \in JobIds |-> IF wpc[j] \in NotStarted THEN 0 ELSE j]
    /\ resp = NoResponse

MeshNext ==
    \/ convert_mesh
    \/ convert_splat_to_mesh

MeshSpec == MeshInit /\ [][MeshNext]_vars

\* Upload requests in either deployment, on an empty uploads directory.
UploadNext ==
    \/ upload_image_file
    \/ server_upload_image_file

UploadSpec == Init /\ [][UploadNext]_vars

\* ======================= claims ==========================================

HasResultRef(rec) == Has(rec, "splatUrl") \/ Has(rec, "splatPath")

HasError(rec) == Has(rec, "error")

\* The step created the record of job j.
Created(j) == j \notin DOMAIN Records /\ j \in DOMAIN Records'

\* The status of job j changed in the step.
StatusChanged(j) ==
    /\ j \in DOMAIN Records
    /\ j \in DOMAIN Records'
    /\ Records[j].status # Records'[j].status

\* C1: in every reachable state at most maxConcurrent (3) jobs have status
\* `processing` in the job record store.
C1_AtMostCeilingProcessing ==
    Cardinality(StatusIn(Records, "processing")) <= maxConcurrent

\* C2: the only status changes written to a job record are
\* queued->processing, processing->complete and processing->error.
C2_OnlySpecifiedEdges ==
    [][\A j \in JobIds :
        StatusChanged(j) =>
            <<Records[j].status, Records'[j].status>> \in
                {<<"queued", "processing">>, <<"processing", "complete">>,
                 <<"processing", "error">>}]_vars

\* C3: once a job record has status `complete` or `error`, no later step
\* changes that record's status.
C3_TerminalImmutable ==
    [][\A j \in JobIds :
        (j \in DOMAIN Records /\ Records[j].status \in {"complete", "error"})
            => (j \in DOMAIN Records' /\ Records'[j].status = Records[j].status)]_vars

\* C4: every terminal job has exactly one of {resultRef, error} set; every
\* queued or processing job has neither.
C4_ExactlyOneOfResultOrError ==
    \A j \in DOMAIN Records :
        LET rec == Records[j] IN
        /\ rec.status \in {"complete", "error"}
               => (HasResultRef(rec) /\ ~HasError(rec))
                  \/ (~HasResultRef(rec) /\ HasError(rec))
        /\ rec.status \in {"queued", "processing"}
               => ~HasResultRef(rec) /\ ~HasError(rec)

\* C4 witness: a job written `error` after it had been written `complete`
\* (its artifact exists uncommitted), next to a job that is complete.
C4_Witness ==
    /\ deployment = "modal"
    /\ \E j \in StatusIn(job_dict, "error") : splat_files[j] = "local"
    /\ StatusIn(job_dict, "complete") # {}
    /\ StatusIn(job_dict, "processing") # {}

C6_ProcessingLeftOnEveryExit ==
    \A j \in StatusIn(Records, "processing") :
        IF deployment = "modal" THEN wpc[j] = "inferring"
                                ELSE tasks[j] = "pending"

\* C7: a job is `complete` in the job record store only when its output
\* artifact has been committed to the artifact store.
C7_CompleteOnlyAfterCommit ==
    deployment = "modal" =>
        \A j \in StatusIn(job_dict, "complete") : splat_files[j] = "committed"

\* C8 (as claimed): generate writes queuePosition = inflightCount + 1 and
\* estimatedWaitSeconds = ceil(queuePosition / 3) * 45.
C8_PositionAndCeilEta ==
    [][\A j \in JobIds :
        (deployment = "modal" /\ Created(j)) =>
            /\ job_dict'[j].queuePosition = Cardinality(Inflight(job_dict)) + 1
            /\ job_dict'[j].estimatedWaitSeconds =
                   CeilDiv(job_dict'[j].queuePosition, maxConcurrent)
                       * AverageJobSeconds]_vars

\* C8 (amended): generate writes queuePosition = counted + 1, where counted
\* is the number of in-flight jobs its counting loop counted (at most the
\* number of jobs in flight), and estimatedWaitSeconds = queuePosition * 45;
\* the response carries the same two values.
C8_PositionAndLinearEta ==
    [][\A j \in JobIds :
        (deployment = "modal" /\ Created(j)) =>
            /\ job_dict'[j].queuePosition >= 1
            /\ job_dict'[j].queuePosition <= Cardinality(Inflight(job_dict)) + 1
            /\ job_dict'[j].estimatedWaitSeconds =
                   job_dict'[j].queuePosition * AverageJobSeconds
            /\ resp'.body.queuePosition = job_dict'[j].queuePosition
            /\ resp'.body.estimatedWaitSeconds =
                   job_dict'[j].estimatedWaitSeconds]_vars

\* C8 witness: a job stored behind two others (position 3), where the
\* claimed and the written wait differ.
C8_Witness ==
    /\ deployment = "modal"
    /\ resp.code = 200
    /\ resp.body.queuePosition = 3
    /\ resp.body.estimatedWaitSeconds = 3 * AverageJobSeconds

\* C9: the estimate is non-decreasing in the counted jobs (position and
\* wait), and with nothing in flight it is (1, 45).
C9_EstimateMonotone ==
    deployment = "modal" =>
        /\ \A a, b \in StatusIn(job_dict, "queued") :
               job_dict[a].queuePosition <= job_dict[b].queuePosition
                   => job_dict[a].estimatedWaitSeconds
                          <= job_dict[b].estimatedWaitSeconds
        /\ \A n \in 0..MaxJobs :
               /\ QueuePosition(n) <= QueuePosition(n + 1)
               /\ EstimatedWaitSeconds(n) <= EstimatedWaitSeconds(n + 1)
        /\ (resp.code = 200 /\ Inflight(job_dict) = {resp.body.jobId})
               => /\ resp.body.queuePosition = 1
                  /\ resp.body.estimatedWaitSeconds =
                         CeilDiv(1, maxConcurrent) * AverageJobSeconds
                  /\ resp.body.estimatedWaitSeconds = 45

\* C9 witness: a job just stored at position 3 while the job that was
\* stored with nothing in flight, at (1, 45), is still queued.
C9_Witness ==
    /\ deployment = "modal"
    /\ resp.code = 200
    /\ resp.body.queuePosition = 3
    /\ \E a \in StatusIn(job_dict, "queued") :
           /\ job_dict[a].queuePosition = 1
           /\ job_dict[a].estimatedWaitSeconds = 45
           /\ job_dict[a].estimatedWaitSeconds
                  < job_dict[resp.body.jobId].estimatedWaitSeconds

C11_DispatchedAtOnceReportsZero ==
    [][\A j \in JobIds :
        (deployment = "modal" /\ Created(j)) =>
            IF Cardinality(StatusIn(job_dict, "processing")) < maxConcurrent
            THEN /\ wpc'[j] = "spawned"
                 /\ resp'.body.queuePosition = 0
                 /\ resp'.body.estimatedWaitSeconds = 0
            ELSE /\ wpc'[j] = "none"
                 /\ resp'.body.queuePosition > 0]_vars

\* The step answered a generate request.
GenerateAnswered == resp'.code \in {200, 404, 500}

C13_WriteFailureDispatchesNothing ==
    /\ \A j \in JobIds : wpc[j] # "none" => j \in DOMAIN job_dict
    /\ resp.code = 500 =>
           \A j \in Fresh(JobIds, DOMAIN job_dict) :
               j \notin DOMAIN job_dict /\ wpc[j] = "none"

\* C13 witness: a generate request just failed on the store write while an
\* earlier job is being processed.
C13_Witness ==
    /\ resp.code = 500
    /\ resp.imageId \in upload_files
    /\ StatusIn(job_dict, "processing") # {}
    /\ Fresh(JobIds, DOMAIN job_dict) # {}

\* The step wrote the record of job j.
Written(j) ==
    /\ j \in DOMAIN Records'
    /\ j \notin DOMAIN Records \/ Records'[j] # Records[j]

\* The step is the generate request that was answered with job j.
AdmissionStep(j) ==
    /\ resp'.code = 200
    /\ resp'.body.jobId = j
    /\ IF deployment = "modal"
       THEN wpc[j] = "none" /\ wpc'[j] = "spawned"
       ELSE tasks[j] = "none" /\ tasks'[j] = "pending"

\* The step is one of the call that processes job j.
WorkerStep(j) ==
    /\ resp' = NoResponse
    /\ IF deployment = "modal"
       THEN wpc[j] \in {"spawned", "inferring", "completing"} /\ wpc'[j] # wpc[j]
       ELSE tasks[j] = "pending" /\ tasks'[j] = "done"

\* C14: a job record is written by the generate request once, when it
\* creates the record before the processing call is dispatched, and by
\* that call at every later write; nothing else writes it.
C14_AdmissionThenWorkerWrites ==
    [][\A j \in JobIds :
        Written(j) =>
            IF j \notin DOMAIN Records THEN AdmissionStep(j) ELSE WorkerStep(j)]_vars

\* C14 witness: a record the generate request created and the processing
\* call has since rewritten twice, next to one only the request has written.
C14_Witness ==
    /\ deployment = "modal"
    /\ \E j \in StatusIn(job_dict, "complete") : wpc[j] = "completing"
    /\ \E k \in StatusIn(job_dict, "queued") : wpc[k] = "spawned"

\* C19: a statistics store that fails after the `complete` write and the
\* commit leaves the job `complete` with its result reference.
C19_StatsFailureKeepsComplete ==
    [][\A j \in JobIds :
        (/\ deployment = "modal"
         /\ wpc[j] = "completing"
         /\ wpc'[j] = "done"
         /\ splat_files'[j] = "committed"
         /\ stats_dict' = stats_dict)
            => /\ job_dict'[j] = job_dict[j]
               /\ job_dict'[j].status = "complete"
               /\ HasResultRef(job_dict'[j])
               /\ ~HasError(job_dict'[j])]_vars

\* C19 witness: a job whose call is over and whose artifact is committed,
\* `complete`, with no completion recorded.
C19_Witness ==
    /\ \E j \in StatusIn(job_dict, "complete") :
           wpc[j] = "done" /\ splat_files[j] = "committed"
    /\ stats_dict.total_count = 0
    /\ stats_dict.completions = << >>

\* The step answered the download request with NotFound.
DownloadNotFound == dl.code # 404 /\ dl'.code = 404

\* C15: a download whose artifact never comes into view makes exactly
\* max_retries (5) attempts, each after a reload of its own, waits 2 s
\* between two attempts and not after the last, and then answers 404.
C15_FiveAttemptsFourWaits ==
    /\ dl.pc = "attempt" =>
           /\ dl.reloads = dl.attempt
           /\ dl.sleeps = dl.attempt
           /\ dl.attempt < max_retries
    /\ dl.pc = "sleep" =>
           /\ dl.reloads = dl.attempt
           /\ dl.sleeps = dl.attempt - 1
           /\ dl.attempt < max_retries
    /\ dl.pc \in {"attempt", "sleep"} => dl.clock = dl.sleeps * RetryWaitSeconds
    /\ dl.code = 404 =>
           /\ dl.attempt = max_retries
           /\ dl.reloads = max_retries
           /\ dl.sleeps = max_retries - 1
    /\ resp.code = 404 => dl.clock = (max_retries - 1) * RetryWaitSeconds
    /\ (resp.code \in {200, 404} /\ SplatDir(dl.job_id, Committed) = "none")
           => resp.code = 404

\* C15 witness: the request just answered 404 after five attempts and four
\* waits, the job it names still being processed.
C15_Witness ==
    /\ resp.code = 404
    /\ dl.job_id = JobName(1)
    /\ dl.filename = ArtifactFile
    /\ dl.attempt = 5
    /\ dl.sleeps = 4
    /\ wpc[1] = "inferring"

\* C16 (as claimed): when the artifact comes into the store within
\* max_retries * 2 = 10 s of the start of the download, the download
\* succeeds - so at that moment it has not been answered 404.
C16_VisibleWithinTenSecondsFetched ==
    [][\A j \in JobIds :
        (/\ dl.pc # "idle"
         /\ dl.job_id = JobName(j)
         /\ dl.filename = ArtifactFile
         /\ splat_files[j] # "committed"
         /\ splat_files'[j] = "committed"
         /\ dl.clock <= max_retries * RetryWaitSeconds)
            => dl.code # 404]_vars

\* C16 (amended): an attempt whose reload finds the artifact committed
\* answers 200, and the attempts come 0, 2, 4, 6 and 8 s after the start; a
\* download is answered 404 only at 8 s, by the fifth attempt, the
\* artifact not committed then.
C16_VisibleAtAnAttemptFetched ==
    [][/\ \A j \in JobIds :
            (/\ dl.pc = "attempt"
             /\ dl.job_id = JobName(j)
             /\ dl.filename # DotDot
             /\ splat_files[j] = "committed"
             /\ dl'.reloads = dl.reloads + 1)
                => /\ dl'.code = 200
                   /\ resp'.code = 200
                   /\ dl.clock = dl.attempt * RetryWaitSeconds
       /\ DownloadNotFound =>
            /\ dl.pc = "attempt"
            /\ dl.attempt = max_retries - 1
            /\ dl.clock = (max_retries - 1) * RetryWaitSeconds
            /\ \A j \in JobIds :
                   dl.job_id = JobName(j) => splat_files[j] # "committed"]_vars

\* C16 witness: the download just succeeded at its fifth attempt, 8 s
\* after it started.
C16_Witness ==
    /\ resp.code = 200
    /\ dl.job_id = JobName(1)
    /\ dl.filename = ArtifactFile
    /\ dl.attempt = max_retries
    /\ dl.clock = 8
    /\ splat_files[1] = "committed"

\* The parameter has the shape of a path traversal: it holds a separator
\* or a parent reference.
TraversalShaped(path) ==
    \/ \E i \in 1..Len(path) : path[i] \in {"/", "\\"}
    \/ \E i \in 1..(Len(path) - 1) : path[i] = "." /\ path[i + 1] = "."

\* C17: a download request whose job id or filename is traversal-shaped is
\* answered 400 before the volume is touched.
C17_TraversalRejectedBeforeStoreAccess ==
    (dl.pc # "idle" /\ (TraversalShaped(dl.job_id) \/ TraversalShaped(dl.filename)))
        => /\ dl.pc = "done"
           /\ dl.code = 400
           /\ dl.reloads = 0

\* C18: a recording that succeeds leaves the list with its timestamp last
\* and at most StatsCap (10,000) entries, the oldest entry dropped when the
\* list was full, and the all-time counter one greater than it found it.
C18_AppendedCappedCounted ==
    [][/\ Len(stats_dict'.completions) <= StatsCap
       /\ \A r \in Recorders :
            /\ (recorders[r].pc = "write_completions"
                /\ recorders'[r].pc = "read_total")
                   => LET found == recorders[r].completions
                          t == recorders[r].current_time
                          new == stats_dict'.completions
                      IN /\ new[Len(new)] = t
                         /\ new = IF Len(found) < StatsCap
                                  THEN Append(found, t)
                                  ELSE Append(Tail(found), t)
            /\ (recorders[r].pc = "write_total" /\ recorders'[r].pc = "done")
                   => /\ stats_dict'.total_count = recorders[r].total_count + 1
                      /\ stats_dict.total_count = recorders[r].total_count
                             => stats_dict'.total_count =
                                    stats_dict.total_count + 1]_vars

\* C18 witness: a recording finished on a list that was full: the list is
\* still full, the oldest entry is gone, the counter is one up.
C18_Witness ==
    /\ \E r \in Recorders : recorders[r].pc = "done"
    /\ \A r \in Recorders : recorders[r].pc \in {"done", "idle"}
    /\ Len(stats_dict.completions) = StatsCap
    /\ stats_dict.completions[1] = LongHistory(StatsCap)[2]
    /\ stats_dict.completions[StatsCap] \in CompletionTimes
    /\ stats_dict.total_count = StatsCap + 1

\* C20: a usage report computed at `now` counts, for the windows of 3600,
\* 86400, 2592000 and 31536000 s, the completions with t > now - window,
\* and hourlyBreakdown[i], i = 0..23, counts those in
\* (now - (24 - i) * 3600, now - (23 - i) * 3600], oldest hour first.
C20_WindowCountsAndHourlyBreakdown ==
    [][(report.pc = "read" /\ resp'.code = 200) =>
        LET c == report.completions
            now == resp'.now
            body == resp'.body
            InWindow(w) == Cardinality({k \in 1..Len(c) : c[k] > now - w})
        IN /\ body.thisHour = InWindow(3600)
           /\ body.thisDay = InWindow(86400)
           /\ body.thisMonth = InWindow(2592000)
           /\ body.thisYear = InWindow(31536000)
           /\ Len(body.hourlyBreakdown) = 24
           /\ \A i \in 0..23 :
                  body.hourlyBreakdown[i + 1] =
                      Cardinality({k \in 1..Len(c) :
                                      /\ now - (24 - i) * 3600 < c[k]
                                      /\ c[k] <= now - (23 - i) * 3600})]_vars

\* C20 witness: a report at Now over the earlier completions and one
\* recorded at Now: four in the day, one in the hour, and the hours 0, 21,
\* 22 and 23 of the breakdown hold one each.
C20_Witness ==
    /\ resp.code = 200
    /\ resp.now = Now
    /\ resp.body.thisYear = 8
    /\ resp.body.thisMonth = 6
    /\ resp.body.thisDay = 4
    /\ resp.body.thisHour = 1
    /\ resp.body.hourlyBreakdown[1] = 1
    /\ resp.body.hourlyBreakdown[22] = 1
    /\ resp.body.hourlyBreakdown[23] = 1
    /\ resp.body.hourlyBreakdown[24] = 1

RECURSIVE SumSeq(_)
SumSeq(s) == IF s = << >> THEN 0 ELSE Head(s) + SumSeq(Tail(s))

\* C21: in every usage report the entries of hourlyBreakdown add up to
\* thisDay, also when a stored timestamp is later than the report's `now`.
C21_HourlySumIsThisDay ==
    (resp.code = 200 /\ Has(resp, "now"))
        => SumSeq(resp.body.hourlyBreakdown) = resp.body.thisDay

\* C22: a status poll whose read of the store returns is answered 404 for
\* an id with no record and with the record as it is stored for an id that
\* has one (a read that raises is answered 500); a poll leaves every job
\* record and every call as it was.
C22_PollReadsSnapshot ==
    [][Has(resp', "job_id") =>
        LET j == resp'.job_id IN
        /\ UNCHANGED <<job_dict, jobs, wpc, tasks, splat_files, stats_dict>>
        /\ resp'.code \in {200, 404, 500}
        /\ resp'.code = 500 => deployment = "modal"
        /\ j \notin DOMAIN Records => resp'.code # 200
        /\ j \in DOMAIN Records =>
               /\ resp'.code # 404
               /\ resp'.code = 200 =>
                      /\ DOMAIN resp'.body = DOMAIN Records[j]
                      /\ \A f \in DOMAIN Records[j] :
                             resp'.body[f] = Records[j][f]]_vars

\* C22 witness: a poll just answered with the `complete` record of a job
\* whose call is still running, after which another id has no record.
C22_Witness ==
    /\ resp.code = 200
    /\ Has(resp, "job_id")
    /\ resp.body.status = "complete"
    /\ HasResultRef(resp.body)
    /\ resp.body = Records[resp.job_id]
    /\ DOMAIN Records # JobIds

\* The call of add_blender_vertex_colors on the file of job j in this step.
ColorCall(j) == Len(color_log'[j]) = Len(color_log[j]) + 1

IsColored(file) == Readable(file) /\ AlreadyColored(VertexOf(file).names)

\* C23: a call of add_blender_vertex_colors on a file that has the colour
\* fields leaves the file as it is, and so does a call that follows a call
\* which added them: two calls leave what one call leaves.
C23_ColoredFileLeftUnchanged ==
    [][\A j \in JobIds :
          ColorCall(j) =>
              /\ IsColored(ply_files[j]) => ply_files'[j] = ply_files[j]
              /\ (color_log[j] # << >>
                  /\ color_log[j][Len(color_log[j])] = "added")
                     => ply_files'[j] = ply_files[j]]_vars

\* A second call has run on a file to which the first call added colours.
C23_Witness ==
    /\ color_log[1] = <<"added", "">>
    /\ IsColored(ply_files[1])

OtherElements(file) == SelectSeq(file.elements, LAMBDA e : e.name # "vertex")

\* The new file is the old one with the four colour fields added to every
\* point and nothing else touched.
OnlyColoursAdded(old, new) ==
    /\ Readable(old) /\ Readable(new)
    /\ Range(VertexOf(new).names) =
           Range(VertexOf(old).names) \cup Range(ColorFields)
    /\ Len(VertexOf(new).data) = Len(VertexOf(old).data)
    /\ \A i \in DOMAIN VertexOf(old).data :
           \A f \in DOMAIN VertexOf(old).data[i] :
               VertexOf(new).data[i][f] = VertexOf(old).data[i][f]
    /\ Range(OtherElements(new)) = Range(OtherElements(old))
    /\ Len(OtherElements(new)) = Len(OtherElements(old))

\* C24: a call of add_blender_vertex_colors either leaves the file as it
\* was, or leaves a file with the same points, the same values in every
\* field they had and the same other elements, the four colour fields
\* being the only addition; a call that fails leaves the file as it was.
C24_OnlyAddsOrLeavesUnchanged ==
    [][ColorCall(1) =>
          \/ ply_files'[1] = ply_files[1]
          \/ /\ color_log'[1][Len(color_log'[1])] = "added"
             /\ OnlyColoursAdded(ply_files[1], ply_files'[1])]_vars

\* The last call on the file of job 1 added the colours.
ColoursAdded ==
    /\ color_log[1] # << >>
    /\ color_log[1][Len(color_log[1])] = "added"

\* C25: in a file to which add_blender_vertex_colors added the colours,
\* every colour value is in 0..255, a coefficient of 0 has the channel
\* value 127 or 128, an opacity of 0 the alpha 127 or 128, an opacity of
\* +10 an alpha above 250 and an opacity of -10 an alpha below 5.
C25_ReferencePoints ==
    ColoursAdded =>
        \A i \in DOMAIN VertexOf(ply_files[1]).data :
            LET p == VertexOf(ply_files[1]).data[i] IN
            /\ {p.red, p.green, p.blue, p.alpha} \subseteq 0..255
            /\ p.f_dc_0 = 0 => p.red \in {127, 128}
            /\ p.f_dc_1 = 0 => p.green \in {127, 128}
            /\ p.f_dc_2 = 0 => p.blue \in {127, 128}
            /\ p.opacity = 0 => p.alpha \in {127, 128}
            /\ p.opacity = 10 => p.alpha > 250
            /\ p.opacity = -10 => p.alpha < 5

\* Colours were added to a file that has a point for each reference value.
C25_Witness ==
    /\ ColoursAdded
    /\ \A o \in {0, 10, -10} :
           \E i \in DOMAIN VertexOf(ply_files[1]).data :
               /\ VertexOf(ply_files[1]).data[i].opacity = o
               /\ o = 0 => VertexOf(ply_files[1]).data[i].f_dc_0 = 0

\* The colour step on the file of job j returned without a warning.
ColourStepSucceeded(j) ==
    /\ color_log[j] # << >>
    /\ color_log[j][Len(color_log[j])] # "warning"

\* C30 as stated: a job that is `complete` has a colour step that
\* succeeded.
C30_CompleteOnlyIfColoured ==
    \A j \in DOMAIN job_dict :
        StatusOf(job_dict, j) = "complete" => ColourStepSucceeded(j)

\* C30: the `complete` write comes after save_ply wrote the file and the
\* colour step returned; the colour step writes no status and is followed
\* by the `complete` write whether it added the colours or printed its
\* warning.
C30_CompleteAfterColourStepReturned ==
    [][\A j \in JobIds :
          /\ (StatusOf(job_dict, j) # "complete"
              /\ StatusOf(job_dict', j) = "complete")
                 => /\ ply_files[j].exists
                    /\ Len(color_log[j]) = 1
          /\ ColorCall(j) => /\ job_dict' = job_dict
                             /\ wpc'[j] = "colored"]_vars

\* A job is `complete` and its colour step printed the warning.
C30_Witness ==
    \E j \in DOMAIN job_dict :
        /\ StatusOf(job_dict, j) = "complete"
        /\ color_log[j] = <<"warning">>

\* C27 as stated: a file that has been written is never written again.
C27_WrittenOnce ==
    [][\A j \in JobIds :
          ply_files[j].exists => ply_files'[j] = ply_files[j]]_vars

\* C27: the file of a job changes only in that job's own call, at save_ply
\* and at the colour step, both before the `complete` write and the commit:
\* from the commit on the file stays as it is.
C27_WrittenBeforeCommitOnly ==
    [][\A j \in JobIds :
          /\ ply_files'[j] # ply_files[j] =>
                 /\ wpc[j] \in {"inferring", "saved"}
                 /\ wpc'[j] # wpc[j]
                 /\ splat_files[j] # "committed"
          /\ splat_files[j] = "committed" => splat_files'[j] = "committed"]_vars

\* A file that save_ply wrote and the colour step rewrote is committed.
C27_Witness ==
    \E j \in JobIds :
        /\ splat_files[j] = "committed"
        /\ color_log[j] = <<"added">>
        /\ IsColored(ply_files[j])

\* The response is that of a generate request which created a job.
Admitted(r) == r.code = 200 /\ Has(r, "imageId") /\ Has(r, "body")

InFlight(d, j) == StatusOf(d, j) \in {"queued", "processing"}

\* C26: a generate request for an upload whose job, created by the request
\* answered just before, is still queued or processing does not create a
\* second job that is queued or processing.
C26_OneInflightJobPerUpload ==
    [][(/\ Admitted(resp) /\ Admitted(resp')
        /\ resp'.imageId = resp.imageId
        /\ Created(resp'.body.jobId)
        /\ InFlight(Records, resp.body.jobId))
           => ~InFlight(Records', resp'.body.jobId)]_vars

\* C28: a convert request whose method is none of poisson, ball_pivoting
\* and alpha_shape is answered with an error and writes no mesh file.
C28_UnknownMethodRejected ==
    [][(Has(resp', "request") /\ resp'.request.method \notin MeshMethods)
           => /\ resp'.code >= 400
              /\ mesh_files' = mesh_files]_vars

\* C29: a call that ends while its job is `processing` because the
\* inference raised or failed leaves the record `error` with the cause in
\* the `error` field; the call is over, and the job is not left
\* `processing`.
C29_RaisedFaultRecordedAsError ==
    [][\A j \in JobIds :
          /\ (wpc[j] = "inferring" /\ wpc'[j] = "done")
                 => /\ StatusOf(job_dict, j) = "processing"
                    /\ job_dict'[j] = ErrorRecord(j, ExceptionText)
          /\ (tasks[j] = "pending" /\ tasks'[j] = "done")
                 => /\ StatusOf(jobs, j) = "processing"
                    /\ StatusOf(jobs', j) \in {"complete", "error"}
                    /\ StatusOf(jobs', j) = "error"
                           => /\ HasError(jobs'[j])
                              /\ jobs'[j].error \in PredictErrors]_vars

\* The server's task is over and its job, `processing` from its creation,
\* is `error` with one of the causes predict returns.
C29_Witness ==
    /\ deployment = "server"
    /\ \E j \in DOMAIN jobs :
           /\ tasks[j] = "done"
           /\ jobs[j].status = "error"
           /\ jobs[j].error \in PredictErrors

\* File names with the extension .ply.
PlyNames == {ArtifactFile, OtherFile}

\* C31: an attempt of the download answers 200 or 404 only after its own
\* reload; it serves the exact path when that is a file; it serves the
\* fallback only when the exact path is absent, and then a .ply file of the
\* directory of the job the request names.
C31_ReloadExactThenFallback ==
    [][(dl.pc = "attempt" /\ dl'.attempt = dl.attempt + 1) =>
          LET file_path == FilePath(dl.job_id, dl.filename, Committed) IN
          /\ resp'.code \in {200, 404} => dl'.reloads = dl.reloads + 1
          /\ dl'.reloads = dl.reloads => resp'.code = 500
          /\ (dl'.reloads = dl.reloads + 1 /\ file_path = "file")
                 => /\ resp'.code = 200
                    /\ resp'.served = "exact"
                    /\ resp'.path = <<dl.job_id, dl.filename>>
          /\ (resp'.code = 200 /\ resp'.served = "fallback")
                 => /\ file_path = "none"
                    /\ \E j \in Committed : dl.job_id = JobName(j)
                    /\ resp'.path[1] = dl.job_id
                    /\ resp'.path[2] \in PlyNames]_vars

\* The request for a file name the job's directory does not hold was just
\* answered from the fallback, after a reload.
C31_Witness ==
    /\ resp.code = 200
    /\ resp.served = "fallback"
    /\ dl.filename = OtherFile
    /\ dl.job_id = JobName(1)
    /\ dl.reloads = dl.attempt
    /\ splat_files[1] = "committed"

\* The step answered a convert request that names a splat path at which
\* there is no file, with a method the request model takes.
ConvertOfMissingSplat ==
    /\ Has(resp', "request")
    /\ ~SplatExists(resp'.request.splat_path)
    /\ resp'.request.method \in MeshMethods

\* C32: a convert request for a splat path that does not exist is answered
\* 404 in both deployments.  (On Modal the reload of the volume comes
\* before the check, and a reload that raises is answered 500.)
C32_MissingSplatNotFound ==
    [][ConvertOfMissingSplat =>
          \/ resp'.code = 404
          \/ deployment = "modal" /\ resp'.code = 500]_vars

\* C33: an upload request stores a file or is answered with an upload
\* record only if the suffix of the file name is in the allow-list and the
\* file has at most MAX_FILE_SIZE bytes; every other request leaves the
\* uploads directory as it was.
C33_StoredOnlyIfAdmissible ==
    [][(Has(resp', "file") /\ (resp'.code = 200 \/ upload_dir' # upload_dir))
           => /\ Lower(resp'.file.suffix) \in allowed_extensions
              /\ resp'.file.size <= MAX_FILE_SIZE
              /\ resp'.code = 200]_vars

\* The completions the statistics held before the calls of the model.
RecordedBefore ==
    IF /\ Len(stats_dict.completions) >= Len(History)
       /\ SubSeq(stats_dict.completions, 1, Len(History)) = History
    THEN Len(History) ELSE 0

\* C34: when every call has gone through its statistics block with every
\* store access succeeding, the all-time counter and the list of
\* completions have both grown by the number of calls.
C34_NoLostUpdate ==
    (\A r \in Recorders : recorders[r].pc = "done")
        => /\ stats_dict.total_count = RecordedBefore + MaxRecorders
           /\ Len(stats_dict.completions) = RecordedBefore + MaxRecorders

\* C35: in every usage report computed when no recording is under way and
\* none has failed,
\* thisHour <= thisDay <= thisMonth <= thisYear <= allTime.
C35_WindowsNested ==
    (/\ resp.code = 200 /\ Has(resp, "body") /\ Has(resp.body, "allTime")
     /\ \A r \in Recorders : recorders[r].pc \in {"idle", "done"})
        => /\ resp.body.thisHour <= resp.body.thisDay
           /\ resp.body.thisDay <= resp.body.thisMonth
           /\ resp.body.thisMonth <= resp.body.thisYear
           /\ resp.body.thisYear <= resp.body.allTime

\* C36: the queueLength and activeJobs of a usage report are the queuedJobs
\* and activeJobs the queue snapshot gives for the same job records.
C36_ReportAgreesWithQueueSnapshot ==
    [][(report.pc = "read" /\ resp'.code = 200)
          => /\ resp'.body.queueLength = QueueStatus(job_dict).queuedJobs
             /\ resp'.body.activeJobs = QueueStatus(job_dict).activeJobs]_vars

\* C37: the queuePosition stored for a job that is queued is never greater
\* than the number of jobs that are queued or processing.
C37_PositionWithinQueue ==
    \A j \in DOMAIN job_dict :
        StatusOf(job_dict, j) = "queued"
            => job_dict[j].queuePosition <= Cardinality(Inflight(job_dict))

\* The download request was answered with the bytes of a file.
ArtifactServed == resp'.code = 200 /\ Has(resp', "path")

\* C38: a download request is answered with the bytes of an artifact only
\* when the job it names has a record with status `complete`.
C38_ServedOnlyWhenComplete ==
    [][ArtifactServed =>
          \E j \in DOMAIN job_dict :
              /\ dl.job_id = JobName(j)
              /\ StatusOf(job_dict, j) = "complete"]_vars

\* The step converted a point cloud and wrote the mesh.
Converted == Has(resp', "request") /\ resp'.code = 200

\* C39: a conversion leaves the mesh of every other job's point cloud as it
\* is and where it is: the mesh it writes goes to a path no such mesh has.
C39_MeshesNotOverwritten ==
    [][Converted =>
          \A f \in DOMAIN mesh_files :
              mesh_files[f].cloud # resp'.request.splat_path
                  => /\ resp'.body.mesh_filename # f
                     /\ mesh_files'[f] = mesh_files[f]]_vars

====
